---- MODULE Spec2Model ----
(***************************************************************************)
(* Model of src/main/utils/mavenUtils.ts (class MavenUtils): the Maven      *)
(* workspace scan createMavenDependenciesTrees, the prototype POM forest    *)
(* built by buildPrototypePomTree / addPrototypeNode, and the GAV resolver  *)
(* getPomDetails with its per-build cache.                                  *)
(*                                                                          *)
(* Encoding.  A GAV string is a number 1..NumGavs; the empty string '' (and *)
(* the falsy undefined) is NoGav = 0.  A file path is the tuple of its      *)
(* segments (<<"w","a","pom.xml">> is /w/a/pom.xml); the empty path '' is   *)
(* <<>>.  PomTree objects live in the store `nodes` (object identity = the  *)
(* index in the store, in allocation order); an array of PomTree is a       *)
(* sequence of such indices.                                                *)
(***************************************************************************)
EXTENDS Integers, Sequences, FiniteSets, TLC

\* ------------------------------------------------------------------ bounds
MaxPoms == 2        \* descriptors (pom.xml files) in the workspace
NumGavs == 4        \* distinct module identities
MaxLines == 2       \* lines of one output of the GAV reader
MaxCalls == 2       \* scans (createMavenDependenciesTrees calls) per process

NoGav == 0
Gavs == 1..NumGavs
EmptyPath == <<>>

\* ------------------------------------------------------------------- paths
\* The descriptor files of the workspace, by number.  Files 6 and 7 lie in
\* two directories whose names are the two encodings of one letter: the
\* code point U+00C5, and "A" followed by the combining ring U+030A.
PomFile(k) ==
    CASE k = 1 -> <<"w", "pom.xml">>
      [] k = 2 -> <<"w", "a", "pom.xml">>
      [] k = 3 -> <<"w", "b", "pom.xml">>
      [] k = 4 -> <<"w", "a", "c", "pom.xml">>
      [] k = 5 -> <<"w", "a", "c", "d", "pom.xml">>
      [] k = 6 -> <<"w", "U+00C5", "pom.xml">>
      [] OTHER -> <<"w", "AU+030A", "pom.xml">>

RECURSIVE FsPathLength(_)
\* pom.fsPath.length: every segment is preceded by one separator.
FsPathLength(p) ==
    IF p = <<>> THEN 0 ELSE 1 + Len(Head(p)) + FsPathLength(Tail(p))

\* path.dirname(p) of a path with at least one directory above the file.
Dirname(p) == SubSeq(p, 1, Len(p) - 1)

\* Rank of a segment in the collation order used by localeCompare, which
\* is 0 for canonically equivalent strings.
SegRank(s) ==
    CASE s = "a" -> 1 [] s = "U+00C5" -> 2 [] s = "AU+030A" -> 2
      [] s = "b" -> 3 [] s = "c" -> 4 [] s = "d" -> 5
      [] s = "pom.xml" -> 6 [] OTHER -> 7

RECURSIVE LocaleLess(_, _)
\* a.fsPath.localeCompare(b.fsPath) < 0
LocaleLess(p, q) ==
    IF q = <<>> THEN FALSE
    ELSE IF p = <<>> THEN TRUE
    ELSE IF SegRank(Head(p)) # SegRank(Head(q)) THEN SegRank(Head(p)) < SegRank(Head(q))
    ELSE LocaleLess(Tail(p), Tail(q))

RECURSIVE InsertBy(_, _, _)
\* Stable insertion of x into the sorted sequence s; the comparator is
\* negative for the pairs of the relation `before`.
InsertBy(before, x, s) ==
    IF s = <<>> THEN <<x>>
    ELSE IF <<x, Head(s)>> \in before THEN <<x>> \o s
    ELSE <<Head(s)>> \o InsertBy(before, x, Tail(s))

RECURSIVE SortBy(_, _)
\* Array.prototype.sort with a comparator: a stable sort.
SortBy(before, s) ==
    IF s = <<>> THEN <<>>
    ELSE InsertBy(before, s[Len(s)], SortBy(before, SubSeq(s, 1, Len(s) - 1)))

Elements(s) == {s[i] : i \in 1..Len(s)}

\* (p1, p2) => p1.fsPath.length - p2.fsPath.length is negative
ShorterPath(s) ==
    {jk \in Elements(s) \X Elements(s) :
        FsPathLength(PomFile(jk[1])) < FsPathLength(PomFile(jk[2]))}

\* (a, b) => a.fsPath.localeCompare(b.fsPath) is negative
LocaleBefore(s) ==
    {jk \in Elements(s) \X Elements(s) : LocaleLess(PomFile(jk[1]), PomFile(jk[2]))}

\* Mutant of SortByPathLength: the array is left in the order given.
SortByPathLengthNot(s) == s

\* pomArray.sort((p1, p2) => p1.fsPath.length - p2.fsPath.length)
SortByPathLength(s) == SortBy(ShorterPath(s), s)

RECURSIVE SetAddAll(_, _)
\* wsPomXmls.forEach(pomXml => pomXmls.add(pomXml)) on a Collections.Set,
\* kept as the array its toArray() gives: an element that is in the set
\* already is not added, a new one comes last.
SetAddAll(set, wsPomXmls) ==
    IF wsPomXmls = <<>> THEN set
    ELSE SetAddAll(IF Head(wsPomXmls) \in Elements(set) THEN set
                   ELSE Append(set, Head(wsPomXmls)),
                   Tail(wsPomXmls))

RECURSIVE SearchAll(_, _)
\* The for-of loop over the workspace folders; found[i] is the array that
\* findFiles returns for folder i.
SearchAll(set, found) ==
    IF found = <<>> THEN set
    ELSE SearchAll(SetAddAll(set, Head(found)), Tail(found))

\* Line 93: the array of the set, sorted by localeCompare when it has more
\* than one element.
SortedIfSeveral(result) ==
    IF Len(result) > 1 THEN SortBy(LocaleBefore(result), result) ELSE result

\* locatePomXmls when the file searches of the folders return `found`.
locatePomXmls(found) == SortedIfSeveral(SearchAll(<<>>, found))

\* ------------------------------------------------------- the PomTree forest
\* new PomTree(pomGav): no descriptor directory, no parent, no children.
NewPomTree(gav) ==
    [pomGav |-> gav, pomPath |-> EmptyPath, parentGav |-> NoGav, children |-> <<>>]

\* parent.addChild(node): node is appended to the children of parent.
addChild(ns, parent, node) ==
    [ns EXCEPT ![parent].children = Append(@, node)]

RECURSIVE deepSearch(_, _, _)
RECURSIVE deepSearchIn(_, _, _)
\* node.deepSearch(pomGav): the node itself or the first match below it,
\* depth first, children in order; 0 when there is none (undefined).
deepSearch(ns, id, gav) ==
    IF ns[id].pomGav = gav THEN id ELSE deepSearchIn(ns, ns[id].children, gav)

\* The first match of deepSearch over the trees of an array, in order.
deepSearchIn(ns, arr, gav) ==
    IF arr = <<>> THEN 0
    ELSE LET found == deepSearch(ns, Head(arr), gav)
         IN  IF found # 0 THEN found ELSE deepSearchIn(ns, Tail(arr), gav)

\* Mutant of getPrototypeNode: the first tree is taken for the parent.
getPrototypeNodeFirst(ns, prototypeTreeArray, pomGav) ==
    IF prototypeTreeArray = <<>> THEN 0 ELSE Head(prototypeTreeArray)

getPrototypeNode(ns, prototypeTreeArray, pomGav) ==
    deepSearchIn(ns, prototypeTreeArray, pomGav)

\* Mutant of searchPomGav: an existing root is never found.
searchPomGavNever(ns, pomTreeArray, pomGav) == -1

\* pomTreeArray.findIndex(pomTree => pomTree.pomGav === pomGav): 0-based
\* index of the first match among the elements of the array, -1 if none.
searchPomGav(ns, pomTreeArray, pomGav) ==
    LET hits == {i \in 1..Len(pomTreeArray) : ns[pomTreeArray[i]].pomGav = pomGav}
    IN  IF hits = {} THEN -1
        ELSE (CHOOSE i \in hits : \A j \in hits : i <= j) - 1

\* arr.splice(index, 1) with a 0-based index: the array without that element.
Splice1(arr, index) ==
    SubSeq(arr, 1, index) \o SubSeq(arr, index + 2, Len(arr))

\* A forest is the store of PomTree objects and the array of its roots.
Forest(ns, arr) == [nodes |-> ns, tree |-> arr]

addPrototypeNode(ns, pomArray, node) ==
    IF ns[node].parentGav # NoGav
    THEN LET parentNode == getPrototypeNode(ns, pomArray, ns[node].parentGav)
         IN  IF parentNode # 0
             THEN Forest(addChild(ns, parentNode, node), pomArray)
             ELSE LET parentPom == Len(ns) + 1
                      ns1 == Append(ns, NewPomTree(ns[node].parentGav))
                  IN  Forest(addChild(ns1, parentPom, node), Append(pomArray, parentPom))
    ELSE Forest(ns, Append(pomArray, node))

\* Mutant of InsertPom: the reused node loses its children.
InsertPomDropChildren(ns, prototypeTree, pomGav, parentGav, dir) ==
    IF pomGav = NoGav THEN Forest(ns, prototypeTree)
    ELSE LET index == searchPomGav(ns, prototypeTree, pomGav)
             currNode == IF index > -1 THEN prototypeTree[index + 1] ELSE Len(ns) + 1
             tree1 == IF index > -1 THEN Splice1(prototypeTree, index) ELSE prototypeTree
             ns1 == IF index > -1 THEN ns ELSE Append(ns, NewPomTree(pomGav))
             ns2 == [ns1 EXCEPT ![currNode].pomPath = dir, ![currNode].parentGav = parentGav,
                                ![currNode].children = <<>>]
         IN  addPrototypeNode(ns2, tree1, currNode)

\* The body of the forEach of buildPrototypePomTree for a descriptor in
\* directory dir whose details resolved to (pomGav, parentGav).
InsertPom(ns, prototypeTree, pomGav, parentGav, dir) ==
    IF pomGav = NoGav THEN Forest(ns, prototypeTree)
    ELSE LET index == searchPomGav(ns, prototypeTree, pomGav)
             currNode == IF index > -1 THEN prototypeTree[index + 1] ELSE Len(ns) + 1
             tree1 == IF index > -1 THEN Splice1(prototypeTree, index) ELSE prototypeTree
             ns1 == IF index > -1 THEN ns ELSE Append(ns, NewPomTree(pomGav))
             ns2 == [ns1 EXCEPT ![currNode].pomPath = dir, ![currNode].parentGav = parentGav]
         IN  addPrototypeNode(ns2, tree1, currNode)

\* Mutant of RemoveRootless: the children of a removed root are not pushed.
RemoveRootlessOnly(ns, prototypeTree, i) ==
    SelectSeq(prototypeTree, LAMBDA n : ns[n].pomPath # EmptyPath)

RECURSIVE RemoveRootless(_, _, _)
\* The closing loop of buildPrototypePomTree from 0-based position i on:
\* a root without pomPath is spliced out and its children are pushed at the
\* end of the array; i is incremented after every iteration.
RemoveRootless(ns, prototypeTree, i) ==
    IF i >= Len(prototypeTree) THEN prototypeTree
    ELSE IF ns[prototypeTree[i + 1]].pomPath = EmptyPath
         THEN RemoveRootless(ns,
                  Splice1(prototypeTree, i) \o ns[prototypeTree[i + 1]].children, i + 1)
         ELSE RemoveRootless(ns, prototypeTree, i + 1)

\* ------------------------------------------------------ the GAV resolver
\* One line of the output of the GAV reader after the escaping of '\': a
\* JSON object {pomPath, gav, parentGav}, or text that JSON.parse rejects.
JsonLine(path, gav, parentGav) ==
    [ok |-> TRUE, pomPath |-> path, gav |-> gav, parentGav |-> parentGav]
BadLine ==
    [ok |-> FALSE, pomPath |-> EmptyPath, gav |-> NoGav, parentGav |-> NoGav]

\* The outcomes of ScanUtils.executeCmd('mvn ...:gav -q', dir): the command
\* throws (non-zero exit), or prints some lines.
CmdFailed == [failed |-> TRUE, lines |-> <<>>]
CmdOutput(lines) == [failed |-> FALSE, lines |-> lines]

\* Mutant of ParseInto: only the first line of the output is stored.
ParseIntoFirstOnly(cache, lines) ==
    IF lines = <<>> THEN [cache |-> cache, threw |-> FALSE]
    ELSE IF ~Head(lines).ok THEN [cache |-> cache, threw |-> TRUE]
    ELSE LET l == Head(lines)
             keys == DOMAIN cache \cup {l.pomPath}
         IN  [cache |-> [k \in keys |-> IF k = l.pomPath THEN <<l.gav, l.parentGav>>
                                         ELSE cache[k]],
              threw |-> \E i \in 1..Len(lines) : ~lines[i].ok]

RECURSIVE ParseInto(_, _)
\* The forEach over the lines: every parsed line is stored under its
\* pomPath; JSON.parse throws at the first malformed line, which leaves the
\* entries stored so far.
ParseInto(cache, lines) ==
    IF lines = <<>> THEN [cache |-> cache, threw |-> FALSE]
    ELSE IF ~Head(lines).ok THEN [cache |-> cache, threw |-> TRUE]
    ELSE LET l == Head(lines)
             keys == DOMAIN cache \cup {l.pomPath}
             cache1 == [k \in keys |-> IF k = l.pomPath THEN <<l.gav, l.parentGav>>
                                       ELSE cache[k]]
         IN  ParseInto(cache1, Tail(lines))

\* Mutant of getPomDetails: after a malformed line the entry stored for the
\* path by an earlier line is returned.
getPomDetailsKeepParsed(pathToPomXml, pomIdCache, out) ==
    IF pathToPomXml \in DOMAIN pomIdCache
    THEN [gav |-> pomIdCache[pathToPomXml], cache |-> pomIdCache,
          invoked |-> FALSE, logged |-> FALSE, raised |-> FALSE]
    ELSE IF out.failed
    THEN [gav |-> <<NoGav, NoGav>>, cache |-> pomIdCache,
          invoked |-> TRUE, logged |-> TRUE, raised |-> FALSE]
    ELSE LET parsed == ParseInto(pomIdCache, out.lines)
         IN  [gav |-> IF pathToPomXml \in DOMAIN parsed.cache
                      THEN parsed.cache[pathToPomXml] ELSE <<NoGav, NoGav>>,
              cache |-> parsed.cache,
              invoked |-> TRUE, logged |-> parsed.threw, raised |-> FALSE]

\* getPomDetails(pathToPomXml, logManager, pomIdCache) when the command, if
\* it is run, ends as `out`.  gav: the returned pair; cache: pomIdCache
\* after the call; invoked: the command was run; logged: the catch block
\* wrote its ERR entries; raised: an exception left the function.
getPomDetails(pathToPomXml, pomIdCache, out) ==
    IF pathToPomXml \in DOMAIN pomIdCache
    THEN [gav |-> pomIdCache[pathToPomXml], cache |-> pomIdCache,
          invoked |-> FALSE, logged |-> FALSE, raised |-> FALSE]
    ELSE IF out.failed
    THEN [gav |-> <<NoGav, NoGav>>, cache |-> pomIdCache,
          invoked |-> TRUE, logged |-> TRUE, raised |-> FALSE]
    ELSE LET parsed == ParseInto(pomIdCache, out.lines)
         IN  IF parsed.threw
             THEN [gav |-> <<NoGav, NoGav>>, cache |-> parsed.cache,
                   invoked |-> TRUE, logged |-> TRUE, raised |-> FALSE]
             ELSE [gav |-> IF pathToPomXml \in DOMAIN parsed.cache
                           THEN parsed.cache[pathToPomXml] ELSE <<NoGav, NoGav>>,
                   cache |-> parsed.cache,
                   invoked |-> TRUE, logged |-> FALSE, raised |-> FALSE]

\* ------------------------------------------- filterParentDependencies
\* A string is the sequence of its characters.  The characters of a
\* dependency line: two alphanumeric ones and, of those that are not, the
\* ones a RegExp reads as syntax; joined lines also hold the separator " ".
WordChars == {"a", "b"}
Chars == WordChars \cup {".", "(", ")"}

\* An optional array: undefined, or an array of lines.
Absent == [present |-> FALSE, lines |-> <<>>]
Present(lines) == [present |-> TRUE, lines |-> lines]

\* childDep.search(/\w/): the 0-based index of the first alphanumeric
\* character, -1 when there is none.
Search(s) ==
    LET hits == {i \in 1..Len(s) : s[i] \in WordChars}
    IN  IF hits = {} THEN -1
        ELSE (CHOOSE i \in hits : \A j \in hits : i <= j) - 1

\* s.slice(index) for index >= -1: a negative index counts from the end.
Slice(s, index) ==
    IF index >= 0 THEN SubSeq(s, index + 1, Len(s))
    ELSE IF s = <<>> THEN <<>>
    ELSE SubSeq(s, Len(s), Len(s))

RECURSIVE Join(_)
\* parentDeps.join(' ')
Join(lines) ==
    IF lines = <<>> THEN <<>>
    ELSE IF Len(lines) = 1 THEN lines[1]
    ELSE lines[1] \o <<" ">> \o Join(Tail(lines))

RECURSIVE GroupsClose(_, _)
\* Every ")" of the pattern closes a group that is open, and `open` + the
\* groups the pattern opens are all closed at its end.
GroupsClose(pattern, open) ==
    IF pattern = <<>> THEN open = 0
    ELSE IF Head(pattern) = "(" THEN GroupsClose(Tail(pattern), open + 1)
    ELSE IF Head(pattern) = ")" THEN open > 0 /\ GroupsClose(Tail(pattern), open - 1)
    ELSE GroupsClose(Tail(pattern), open)

\* new RegExp(`^.*${pattern}.*$`, 'mg') does not throw a SyntaxError.
RegExpCompiles(pattern) == GroupsClose(pattern, 0)

\* The pattern without its group marks: what its groups match, in order.
Atoms(pattern) == SelectSeq(pattern, LAMBDA c : c \notin {"(", ")"})

\* text.match(regex) is not null: the atoms match the characters of the
\* text from some position on, "." matching any character (the text is one
\* line, so ^.* and .*$ match what is before and after).
RegExpMatches(pattern, text) ==
    LET atoms == Atoms(pattern)
    IN  \E i \in 0..(Len(text) - Len(atoms)) :
            \A k \in 1..Len(atoms) : atoms[k] = "." \/ atoms[k] = text[i + k]

\* The pattern text of line 298 for a child line.
PatternOf(childDep) == Slice(childDep, Search(childDep))

\* Mutant of filterParentDependencies: the child array is filtered in place.
filterParentDependenciesInPlace(childDependencies, parentDeps) ==
    IF parentDeps.present
    THEN LET rawParentDep == Join(parentDeps.lines)
             kept == SelectSeq(childDependencies,
                         LAMBDA childDep : ~RegExpMatches(PatternOf(childDep), rawParentDep))
         IN  IF \E i \in 1..Len(childDependencies) :
                    ~RegExpCompiles(PatternOf(childDependencies[i]))
             THEN [threw |-> TRUE, result |-> Absent,
                   childDependencies |-> childDependencies, parentDeps |-> parentDeps]
             ELSE [threw |-> FALSE, result |-> Present(kept),
                   childDependencies |-> kept, parentDeps |-> parentDeps]
    ELSE [threw |-> FALSE, result |-> Absent,
          childDependencies |-> childDependencies, parentDeps |-> parentDeps]

\* filterParentDependencies(childDependencies, parentDeps).  threw: the
\* RegExp constructor threw for some child line; result: the returned
\* value; childDependencies, parentDeps: the two arrays after the call
\* (join and filter build new values).
filterParentDependencies(childDependencies, parentDeps) ==
    IF parentDeps.present
    THEN LET rawParentDep == Join(parentDeps.lines)
             kept == SelectSeq(childDependencies,
                         LAMBDA childDep : ~RegExpMatches(PatternOf(childDep), rawParentDep))
         IN  IF \E i \in 1..Len(childDependencies) :
                    ~RegExpCompiles(PatternOf(childDependencies[i]))
             THEN [threw |-> TRUE, result |-> Absent,
                   childDependencies |-> childDependencies, parentDeps |-> parentDeps]
             ELSE [threw |-> FALSE, result |-> Present(kept),
                   childDependencies |-> childDependencies, parentDeps |-> parentDeps]
    ELSE [threw |-> FALSE, result |-> Absent,
          childDependencies |-> childDependencies, parentDeps |-> parentDeps]

\* --------------------------------------------------- getDependencyPos
\* The lower-case group and artifact names, none of which is part of
\* another or of a tag name, and the versions.
Names == {"foo", "bar"}
Versions == {"1", "2"}

\* A <dependency> block of a pom.xml, written on five lines:
\* <dependency>, <groupId>, <artifactId>, <version>, </dependency>.
DependencyBlocks == [groupId : Names, artifactId : Names, version : Versions]
BlockLines == 5

\* group.includes(name) for a block text and a group or artifact name.
Includes(block, name) == name \in {block.groupId, block.artifactId}

\* Lines 51-53: the blocks of the text that include the group and the
\* artifact name of the node, by their number in the text.
DependencyMatch(document, node) ==
    {k \in 1..Len(document) :
        Includes(document[k], node.groupId) /\ Includes(document[k], node.artifactId)}

\* A vscode.Position of the result: the line, and the column of the '<' of
\* the line or the column of its end.
Position(line, edge) == [line |-> line, edge |-> edge]

\* Lines 55-68 for the first matching block: two positions for each of its
\* lines that is the groupId, artifactId or version tag of the node.
Highlight(document, node) ==
    LET matches == DependencyMatch(document, node)
        k == CHOOSE m \in matches : \A n \in matches : m <= n
        startLine == BlockLines * (k - 1)
        Span(i, hit) == IF hit THEN <<Position(startLine + i, "open"),
                                      Position(startLine + i, "end")>>
                        ELSE <<>>
    IN  Span(1, document[k].groupId = node.groupId)
            \o Span(2, document[k].artifactId = node.artifactId)
            \o Span(3, document[k].version = node.version)

\* Mutant of GoesToParent: the lookup never goes on with the parent.
GoesToParentNever(node) == FALSE

\* Line 70: the node is not a MavenTreeNode.
GoesToParent(node) == ~node.moduleRoot

RECURSIVE getDependencyPos(_, _)
\* getDependencyPos(document, dependenciesTreeNode); the node is given as
\* the chain of the node, its parent, the parent of its parent, ...: the
\* empty chain is undefined.
getDependencyPos(document, chain) ==
    IF chain = <<>> THEN <<>>
    ELSE IF DependencyMatch(document, Head(chain)) # {} THEN Highlight(document, Head(chain))
    ELSE IF GoesToParent(Head(chain)) THEN getDependencyPos(document, Tail(chain))
    ELSE <<>>

\* ------------------------------------------------------------------ state
VARIABLES
    world,                    \* per descriptor k: the (gav, parentGav) its pom.xml declares
    limits,                   \* scans of this process, lines of an output of its reader
    mavenGavReaderInstalled,  \* MavenUtils.mavenGavReaderInstalled
    pc,                       \* position in createMavenDependenciesTrees
    outcome,                  \* how the last scan ended: "none", "returned", "thrown"
    calls,                    \* scans started so far
    pomXmls,                  \* the array of descriptors (numbers of PomFile)
    done,                     \* descriptors the forEach has processed
    pomIdCache,               \* pomIdCache of the running buildPrototypePomTree
    resolved,                 \* history: the pair getPomDetails returned, per processed descriptor
    nodes,                    \* the PomTree objects
    prototypeTree,            \* prototypeTree: the roots of the forest
    rootPos,                  \* roots the for-of loop has gone through
    mavenTreeNodes,           \* mavenTreeNodes: the roots with a populated tree node
    attempted,                \* history: the iterations of the for-of loop over the roots
    cmds,                     \* history: external commands and messages of this scan
    installRuns,              \* history: runs of the install command in the process
    installFailed,            \* history: those of them that failed
    last,                     \* history: the last descriptor step (see ProcessPom)
    locate,                   \* a call of locatePomXmls: its input, locals and result
    filter,                   \* calls of filterParentDependencies: inputs and results
    pomArray,                 \* the array given to a direct call of buildPrototypePomTree
    depPos                    \* a call of getDependencyPos: its arguments, the node of the
                              \* running invocation, the result

\* The calls of the functions that are checked on their own.
fnVars == <<locate, filter, pomArray, depPos>>

vars == <<world, limits, mavenGavReaderInstalled, pc, outcome, calls, pomXmls, done,
          pomIdCache, resolved, nodes, prototypeTree, rootPos, mavenTreeNodes, attempted,
          cmds, installRuns, installFailed, last, fnVars>>

WorldPairs == {<<g, p>> : g \in Gavs, p \in {NoGav} \cup Gavs} \cup {<<NoGav, NoGav>>}

\* The identities of a world in the order gav(1), parentGav(1), gav(2), ...
Mentions(w) == [i \in 1..(2 * Len(w)) |-> w[(i + 1) \div 2][2 - (i % 2)]]

\* Identities are only names: a world numbers them in the order of their
\* first mention, which leaves one world of every class of worlds that
\* differ by a renaming of the identities.
FirstMentionOrder(w) ==
    LET m == Mentions(w)
    IN  \A i \in 1..Len(m) :
           m[i] > 1 => \E j \in 1..(i - 1) : m[j] = m[i] - 1

Worlds == {w \in UNION {[1..n -> WorldPairs] : n \in 0..MaxPoms} : FirstMentionOrder(w)}

NoCmds == [probe |-> 0, probeFailed |-> 0, install |-> 0, gav |-> 0, tree |-> 0, shown |-> 0]
EmptyCache == [k \in {} |-> <<NoGav, NoGav>>]
NoStep == [pom |-> 0, out |-> CmdFailed, gav |-> <<NoGav, NoGav>>,
           invoked |-> FALSE, logged |-> FALSE, cacheBefore |-> EmptyCache,
           nodesBefore |-> <<>>, treeBefore |-> <<>>]

\* The lines the reader can print in a workspace: one per descriptor, with
\* the identities its pom.xml declares, or a malformed one.
ReaderLines == {JsonLine(PomFile(k), world[k][1], world[k][2]) : k \in 1..Len(world)}
                   \cup {BadLine}
ReaderOutputs ==
    {CmdFailed} \cup
    {CmdOutput(ls) : ls \in UNION {[1..n -> ReaderLines] : n \in 0..limits.lines}}

\* The workspaces whose modules have no parent, and those with at most one
\* descriptor.
FlatWorlds == {w \in Worlds : \A k \in 1..Len(w) : w[k][2] = NoGav}
SmallWorlds == {w \in Worlds : Len(w) <= 1}

\* The processes explored: one scan of any workspace with a reader that
\* prints at most one line; one scan of a workspace of parentless modules
\* with a reader that prints up to MaxLines lines; up to MaxCalls scans of
\* a workspace with at most one descriptor.
Runs ==
    ([scans : {1}, lines : {1}] \X Worlds)
        \cup ([scans : {1}, lines : {MaxLines}] \X FlatWorlds)
        \cup ([scans : {MaxCalls}, lines : {1}] \X SmallWorlds)

\* No call of locatePomXmls on its own.
NoLocate == [found |-> <<>>, searched |-> 0, pomXmls |-> <<>>, result |-> <<>>,
             returned |-> FALSE]

\* No call of filterParentDependencies.
NoResult == [threw |-> FALSE, result |-> Absent]
NoFilter == [given |-> [childDependencies |-> <<>>, parentDeps |-> Absent],
             childDependencies |-> <<>>, parentDeps |-> Absent, calls |-> 0,
             first |-> NoResult, passed |-> <<>>, second |-> NoResult]

\* No call of getDependencyPos.
NoDepPos == [document |-> <<>>, pom |-> <<>>, chain |-> <<>>, node |-> 1, calls |-> 0,
             result |-> <<>>, returned |-> FALSE]

\* The process before its first scan.
ProcessStart ==
    /\ mavenGavReaderInstalled = FALSE
    /\ pc = "idle"
    /\ outcome = "none"
    /\ calls = 0
    /\ pomXmls = <<>>
    /\ done = 0
    /\ pomIdCache = EmptyCache
    /\ resolved = <<>>
    /\ nodes = <<>>
    /\ prototypeTree = <<>>
    /\ rootPos = 0
    /\ mavenTreeNodes = <<>>
    /\ attempted = <<>>
    /\ cmds = NoCmds
    /\ installRuns = 0
    /\ installFailed = 0
    /\ last = NoStep

Init ==
    /\ \E run \in Runs : limits = run[1] /\ world = run[2]
    /\ ProcessStart
    /\ locate = NoLocate
    /\ filter = NoFilter
    /\ pomArray = <<>>
    /\ depPos = NoDepPos

\* createMavenDependenciesTrees, lines 143-148: locate the descriptors;
\* return [] when there is none.
StartScan ==
    /\ pc = "idle"
    /\ calls < limits.scans
    /\ calls' = calls + 1
    /\ pomXmls' = locatePomXmls(<<[k \in 1..Len(world) |-> k]>>)
    /\ done' = 0
    /\ pomIdCache' = EmptyCache
    /\ resolved' = <<>>
    /\ nodes' = <<>>
    /\ prototypeTree' = <<>>
    /\ rootPos' = 0
    /\ mavenTreeNodes' = <<>>
    /\ attempted' = <<>>
    /\ cmds' = NoCmds
    /\ last' = NoStep
    /\ IF Len(pomXmls') = 0
       THEN pc' = "idle" /\ outcome' = "returned"
       ELSE pc' = "verify" /\ outcome' = "none"
    /\ UNCHANGED <<world, limits, mavenGavReaderInstalled, installRuns, installFailed>>
    /\ UNCHANGED fnVars

\* verifyMavenInstalled when execSync('mvn -version') throws or not.
verifyMavenInstalled(probeOk) == probeOk

\* Mutant of VerifyMavenWith: the scan goes on after the error message.
VerifyMavenGoesOn(probeOk) ==
    /\ cmds' = [cmds EXCEPT !.probe = @ + 1,
                            !.probeFailed = @ + (IF probeOk THEN 0 ELSE 1),
                            !.shown = @ + (IF verifyMavenInstalled(probeOk) THEN 0 ELSE 1)]
    /\ pc' = "build"
    /\ outcome' = outcome

\* Lines 149-152: without Maven, one error message and the return of [].
VerifyMavenWith(probeOk) ==
    /\ cmds' = [cmds EXCEPT !.probe = @ + 1,
                            !.probeFailed = @ + (IF probeOk THEN 0 ELSE 1),
                            !.shown = @ + (IF verifyMavenInstalled(probeOk) THEN 0 ELSE 1)]
    /\ IF verifyMavenInstalled(probeOk)
       THEN pc' = "build" /\ outcome' = outcome
       ELSE pc' = "idle" /\ outcome' = "returned"

VerifyMaven ==
    /\ pc = "verify"
    /\ \E probeOk \in BOOLEAN : VerifyMavenWith(probeOk)
    /\ UNCHANGED <<world, limits, mavenGavReaderInstalled, calls, pomXmls, done, pomIdCache,
                   resolved, nodes, prototypeTree, rootPos, mavenTreeNodes, attempted,
                   installRuns, installFailed, last>>
    /\ UNCHANGED fnVars

\* Mutant of InstallNeeded: the flag is not consulted.
InstallNeededAlways(installed) == TRUE

\* The gate of line 194.
InstallNeeded(installed) == ~installed

\* Mutant of installMavenGavReader: the flag is not set.
installMavenGavReaderNoFlag(installed, cmdOk) ==
    [threw |-> ~cmdOk, installed |-> installed]

\* installMavenGavReader when its command throws or not: the flag is set
\* after the command, so only when it did not throw.
installMavenGavReader(installed, cmdOk) ==
    IF cmdOk THEN [threw |-> FALSE, installed |-> TRUE]
    ELSE [threw |-> TRUE, installed |-> installed]

\* Mutant of BuildStartWith: the build goes on after a failed install.
BuildStartWithSwallowed(cmdOk) ==
    LET inst == installMavenGavReader(mavenGavReaderInstalled, cmdOk)
    IN  /\ installRuns' = installRuns + 1
        /\ installFailed' = installFailed + (IF cmdOk THEN 0 ELSE 1)
        /\ cmds' = [cmds EXCEPT !.install = @ + 1]
        /\ mavenGavReaderInstalled' = inst.installed
        /\ pomXmls' = SortByPathLength(pomXmls)
        /\ pc' = "poms"
        /\ outcome' = outcome

\* buildPrototypePomTree, lines 192-198: fresh forest and cache, the install
\* gate, the sort.  An exception of installMavenGavReader leaves
\* buildPrototypePomTree and createMavenDependenciesTrees (line 155 is
\* outside the try).
BuildStartWith(cmdOk) ==
    LET inst == installMavenGavReader(mavenGavReaderInstalled, cmdOk)
    IN  /\ installRuns' = installRuns + 1
        /\ installFailed' = installFailed + (IF cmdOk THEN 0 ELSE 1)
        /\ cmds' = [cmds EXCEPT !.install = @ + 1]
        /\ mavenGavReaderInstalled' = inst.installed
        /\ IF inst.threw
           THEN /\ pomXmls' = pomXmls
                /\ pc' = "idle"
                /\ outcome' = "thrown"
           ELSE /\ pomXmls' = SortByPathLength(pomXmls)
                /\ pc' = "poms"
                /\ outcome' = outcome

BuildStart ==
    /\ pc = "build"
    /\ nodes' = <<>>
    /\ prototypeTree' = <<>>
    /\ pomIdCache' = EmptyCache
    /\ resolved' = <<>>
    /\ done' = 0
    /\ IF InstallNeeded(mavenGavReaderInstalled)
       THEN \E cmdOk \in BOOLEAN : BuildStartWith(cmdOk)
       ELSE /\ pomXmls' = SortByPathLength(pomXmls)
            /\ pc' = "poms"
            /\ UNCHANGED <<mavenGavReaderInstalled, installRuns, installFailed, cmds,
                           outcome>>
    /\ UNCHANGED <<world, limits, calls, rootPos, mavenTreeNodes, attempted, last>>
    /\ UNCHANGED fnVars

\* One iteration of the forEach, lines 199-214: getPomDetails for the next
\* descriptor (the reader command, if run, ends as `out`), then the insertion.
ProcessPomWith(out) ==
    LET pom == pomXmls[done + 1]
        r == getPomDetails(PomFile(pom), pomIdCache, out)
        f == InsertPom(nodes, prototypeTree, r.gav[1], r.gav[2], Dirname(PomFile(pom)))
    IN  /\ last' = [pom |-> pom, out |-> out, gav |-> r.gav, invoked |-> r.invoked,
                    logged |-> r.logged, cacheBefore |-> pomIdCache, nodesBefore |-> nodes,
                    treeBefore |-> prototypeTree]
        /\ pomIdCache' = r.cache
        /\ resolved' = Append(resolved, r.gav)
        /\ cmds' = [cmds EXCEPT !.gav = @ + (IF r.invoked THEN 1 ELSE 0)]
        /\ IF r.raised
           THEN /\ pc' = "idle"
                /\ outcome' = "thrown"
                /\ UNCHANGED <<nodes, prototypeTree, done>>
           ELSE /\ nodes' = f.nodes
                /\ prototypeTree' = f.tree
                /\ done' = done + 1
                /\ UNCHANGED <<pc, outcome>>

ProcessPom ==
    /\ pc = "poms"
    /\ done < Len(pomXmls)
    /\ IF PomFile(pomXmls[done + 1]) \in DOMAIN pomIdCache
       THEN ProcessPomWith(CmdOutput(<<>>))
       ELSE \E out \in ReaderOutputs : ProcessPomWith(out)
    /\ UNCHANGED <<world, limits, mavenGavReaderInstalled, calls, pomXmls, rootPos,
                   mavenTreeNodes, attempted, installRuns, installFailed>>
    /\ UNCHANGED fnVars

\* Lines 216-223: the removal of the roots without descriptor, and the
\* return of the forest to createMavenDependenciesTrees (line 155), where
\* the cache of the build is no longer alive.
FinishBuild ==
    /\ pc = "poms"
    /\ done = Len(pomXmls)
    /\ prototypeTree' = RemoveRootless(nodes, prototypeTree, 0)
    /\ pc' = "trees"
    /\ rootPos' = 0
    /\ mavenTreeNodes' = <<>>
    /\ pomIdCache' = EmptyCache
    /\ last' = NoStep
    /\ UNCHANGED <<world, limits, mavenGavReaderInstalled, outcome, calls, pomXmls, done,
                   resolved, nodes, attempted, cmds, installRuns,
                   installFailed>>
    /\ UNCHANGED fnVars

\* How the body of the try of lines 157-166 can end for one root.
RootResults == {"treeFailed", "refreshFailed", "noChildren", "children"}

\* Mutant of AnalyzeRootWith: a failure ends the loop.
AnalyzeRootStopsOnFailure(res) ==
    LET ProjectTree == prototypeTree[rootPos + 1]
        failed == res \in {"treeFailed", "refreshFailed"}
    IN  /\ attempted' = Append(attempted, [root |-> ProjectTree, failed |-> failed,
                                           logged |-> failed,
                                           children |-> (res = "children")])
        /\ cmds' = [cmds EXCEPT !.tree = @ + 1]
        /\ mavenTreeNodes' = IF res = "children"
                             THEN Append(mavenTreeNodes, ProjectTree)
                             ELSE mavenTreeNodes
        /\ rootPos' = IF failed THEN Len(prototypeTree) ELSE rootPos + 1
        /\ UNCHANGED <<pc, outcome>>

\* One iteration of the for-of loop, lines 156-177: the try ends with an
\* exception of runMavenDependencyTree or of refreshDependencies, which the
\* catch logs, or with a tree node that has children or none.
AnalyzeRootWith(res) ==
    LET ProjectTree == prototypeTree[rootPos + 1]
        failed == res \in {"treeFailed", "refreshFailed"}
    IN  /\ attempted' = Append(attempted, [root |-> ProjectTree, failed |-> failed,
                                           logged |-> failed,
                                           children |-> (res = "children")])
        /\ cmds' = [cmds EXCEPT !.tree = @ + 1]
        /\ mavenTreeNodes' = IF res = "children"
                             THEN Append(mavenTreeNodes, ProjectTree)
                             ELSE mavenTreeNodes
        /\ rootPos' = rootPos + 1
        /\ UNCHANGED <<pc, outcome>>

AnalyzeRoot ==
    /\ pc = "trees"
    /\ rootPos < Len(prototypeTree)
    /\ \E res \in RootResults : AnalyzeRootWith(res)
    /\ UNCHANGED <<world, limits, mavenGavReaderInstalled, calls, pomXmls, done, pomIdCache,
                   resolved, nodes, prototypeTree, installRuns, installFailed, last>>
    /\ UNCHANGED fnVars

\* Line 178: return mavenTreeNodes.
ReturnTrees ==
    /\ pc = "trees"
    /\ rootPos = Len(prototypeTree)
    /\ pc' = "idle"
    /\ outcome' = "returned"
    /\ UNCHANGED <<world, limits, mavenGavReaderInstalled, calls, pomXmls, done, pomIdCache,
                   resolved, nodes, prototypeTree, rootPos, mavenTreeNodes, attempted, cmds,
                   installRuns, installFailed, last>>
    /\ UNCHANGED fnVars

Next ==
    \/ StartScan
    \/ VerifyMaven
    \/ BuildStart
    \/ ProcessPom
    \/ FinishBuild
    \/ AnalyzeRoot
    \/ ReturnTrees

Spec == Init /\ [][Next]_vars

\* -------------------------------------- buildPrototypePomTree on its own
\* The arrays of the descriptors 1..n, in any order.
Arrangements(n) ==
    {a \in [1..n -> 1..n] : \A i, j \in 1..n : i # j => a[i] # a[j]}

\* A call of buildPrototypePomTree(pomArray, logManager) with the
\* descriptors of the workspace in any order, in a process whose reader is
\* installed or not.
BuildInit ==
    /\ \E w \in Worlds : \E a \in Arrangements(Len(w)) :
          world = w /\ pomArray = a /\ pomXmls = a
    /\ limits = [scans |-> 1, lines |-> 1]
    /\ mavenGavReaderInstalled \in BOOLEAN
    /\ pc = "build"
    /\ outcome = "none"
    /\ calls = 1
    /\ done = 0
    /\ pomIdCache = EmptyCache
    /\ resolved = <<>>
    /\ nodes = <<>>
    /\ prototypeTree = <<>>
    /\ rootPos = 0
    /\ mavenTreeNodes = <<>>
    /\ attempted = <<>>
    /\ cmds = NoCmds
    /\ installRuns = 0
    /\ installFailed = 0
    /\ last = NoStep
    /\ locate = NoLocate
    /\ filter = NoFilter
    /\ depPos = NoDepPos

BuildNext ==
    \/ BuildStart
    \/ ProcessPom
    \/ FinishBuild

BuildSpec == BuildInit /\ [][BuildNext]_vars

\* --------------------------------------------- locatePomXmls on its own
\* The variables of the scan, which a call of a function on its own leaves
\* alone.
scanVars == <<world, limits, mavenGavReaderInstalled, pc, outcome, calls, pomXmls, done,
              pomIdCache, resolved, nodes, prototypeTree, rootPos, mavenTreeNodes,
              attempted, cmds, installRuns, installFailed, last>>

\* A process that runs no scan.
NoScan ==
    /\ world = <<>>
    /\ limits = [scans |-> 0, lines |-> 0]
    /\ ProcessStart

MaxFolders == 2     \* workspace folders of a call of locatePomXmls

\* The pom.xml files of the file system snapshot (numbers of PomFile).
SnapshotFiles == {1, 2, 6, 7}

\* The arrays findFiles can return: some of the files (each folder has its
\* base and its exclude pattern), each once, in any order.
FindFilesResults ==
    {r \in UNION {[1..n -> SnapshotFiles] : n \in 0..Cardinality(SnapshotFiles)} :
        \A i, j \in 1..Len(r) : i # j => r[i] # r[j]}

LocateInit ==
    /\ NoScan
    /\ filter = NoFilter
    /\ pomArray = <<>>
    /\ depPos = NoDepPos
    /\ \E found \in UNION {[1..n -> FindFilesResults] : n \in 0..MaxFolders} :
          locate = [NoLocate EXCEPT !.found = found]

\* One iteration of the for-of loop of lines 83-90.
LocateSearch ==
    /\ ~locate.returned
    /\ locate.searched < Len(locate.found)
    /\ locate' = [locate EXCEPT !.searched = @ + 1,
                                !.pomXmls = SetAddAll(@, locate.found[locate.searched + 1])]
    /\ UNCHANGED <<scanVars, filter, pomArray, depPos>>

\* Lines 91-93: toArray, the sort, the return.
LocateReturn ==
    /\ ~locate.returned
    /\ locate.searched = Len(locate.found)
    /\ locate' = [locate EXCEPT !.result = SortedIfSeveral(locate.pomXmls),
                                !.returned = TRUE]
    /\ UNCHANGED <<scanVars, filter, pomArray, depPos>>

LocateNext ==
    \/ LocateSearch
    \/ LocateReturn

LocateSpec == LocateInit /\ [][LocateNext]_vars

\* ---------------------------------- filterParentDependencies on its own
MaxLineLen == 2     \* characters of a dependency line
MaxDeps == 2        \* lines of a dependency list

LinesUpTo(n) == UNION {[1..k -> Chars] : k \in 0..n}
ListsUpTo(n, lines) == UNION {[1..k -> lines] : k \in 0..n}

\* The calls explored: one child line against one parent line, both of up
\* to MaxLineLen characters; lists of up to MaxDeps lines of at most one
\* character, the parent list present or not.
FilterInputs ==
    ({<<l>> : l \in LinesUpTo(MaxLineLen)} \X {Present(<<l>>) : l \in LinesUpTo(MaxLineLen)})
        \cup (ListsUpTo(MaxDeps, LinesUpTo(1))
                  \X ({Absent} \cup {Present(ls) : ls \in ListsUpTo(MaxDeps, LinesUpTo(1))}))

FilterInit ==
    /\ NoScan
    /\ locate = NoLocate
    /\ pomArray = <<>>
    /\ depPos = NoDepPos
    /\ \E in \in FilterInputs :
          filter = [NoFilter EXCEPT !.given = [childDependencies |-> in[1], parentDeps |-> in[2]],
                                    !.childDependencies = in[1],
                                    !.parentDeps = in[2]]

\* A call of filterParentDependencies on the given arrays.
FilterCall ==
    /\ filter.calls = 0
    /\ LET r == filterParentDependencies(filter.childDependencies, filter.parentDeps)
       IN  filter' = [filter EXCEPT !.calls = 1,
                                    !.first = [threw |-> r.threw, result |-> r.result],
                                    !.childDependencies = r.childDependencies,
                                    !.parentDeps = r.parentDeps]
    /\ UNCHANGED <<scanVars, locate, pomArray, depPos>>

\* A call on the array the first call returned, with the same parentDeps.
FilterAgain ==
    /\ filter.calls = 1
    /\ ~filter.first.threw
    /\ filter.first.result.present
    /\ LET r == filterParentDependencies(filter.first.result.lines, filter.parentDeps)
       IN  filter' = [filter EXCEPT !.calls = 2,
                                    !.second = [threw |-> r.threw, result |-> r.result],
                                    !.passed = r.childDependencies,
                                    !.parentDeps = r.parentDeps]
    /\ UNCHANGED <<scanVars, locate, pomArray, depPos>>

FilterNext ==
    \/ FilterCall
    \/ FilterAgain

FilterSpec == FilterInit /\ [][FilterNext]_vars

\* ------------------------------------------------- properties of a forest
RECURSIVE Walk(_, _, _)
\* The nodes of the trees of arr in depth-first order, down to `depth`
\* levels.
Walk(ns, arr, depth) ==
    IF arr = <<>> \/ depth = 0 THEN <<>>
    ELSE <<Head(arr)>> \o Walk(ns, ns[Head(arr)].children, depth - 1)
                       \o Walk(ns, Tail(arr), depth)

\* Every occurrence of a node in the forest (a path longer than the number
\* of objects would pass through some object twice).
Occurrences(ns, arr) == Walk(ns, arr, Len(ns) + 1)

NoIdentityTwice(ns, arr) ==
    LET occ == Occurrences(ns, arr)
    IN  \A i, j \in 1..Len(occ) : i # j => ns[occ[i]].pomGav # ns[occ[j]].pomGav

NoNodeOwnAncestor(ns, arr) ==
    Walk(ns, arr, Len(ns)) = Walk(ns, arr, Len(ns) + 1)

ValidForest(ns, arr) == NoIdentityTwice(ns, arr) /\ NoNodeOwnAncestor(ns, arr)

InForest(ns, arr) == {Occurrences(ns, arr)[i] : i \in 1..Len(Occurrences(ns, arr))}
Roots(arr) == {arr[i] : i \in 1..Len(arr)}
Placeholder(ns, n) == ns[n].pomPath = EmptyPath

\* The forest buildPrototypePomTree returned is the one the for-of loop of
\* createMavenDependenciesTrees goes through.
ForestReturned == pc = "trees"

\* The identities of the descriptors that resolved in this build.
ResolvedGavs == {resolved[i][1] : i \in 1..Len(resolved)} \ {NoGav}

\* ---------------------------------------------------------------- claims
\* C1: for every input, the forest returned by buildPrototypePomTree is a
\* valid forest: no identity is carried by two nodes and no node is its own
\* ancestor.
C1_ReturnedForestValid ==
    ForestReturned => ValidForest(nodes, prototypeTree)

\* C2: no node of the returned forest has an empty descriptorDir, and every
\* module whose parent identity has no descriptor in the input is a root of
\* the returned forest.
C2_NoPlaceholderReturned ==
    ForestReturned =>
        /\ \A n \in InForest(nodes, prototypeTree) : ~Placeholder(nodes, n)
        /\ \A n \in InForest(nodes, prototypeTree) :
              (~Placeholder(nodes, n) /\ nodes[n].parentGav \notin ResolvedGavs)
                  => n \in Roots(prototypeTree)

\* The descriptors processed so far whose identity resolved.
Processed == {i \in 1..Len(resolved) : resolved[i][1] # NoGav}
GavOf(i) == resolved[i][1]
ParentGavOf(i) == resolved[i][2]
DirOf(i) == Dirname(PomFile(pomXmls[i]))

\* The nodes of the forest that carry an identity / a descriptor directory.
Carrying(gav) == {n \in InForest(nodes, prototypeTree) : nodes[n].pomGav = gav}
NodesAt(dir) == {n \in InForest(nodes, prototypeTree) : nodes[n].pomPath = dir}
ChildrenOf(n) == {nodes[n].children[k] : k \in 1..Len(nodes[n].children)}

\* c is a processed descriptor whose resolved parent is the identity of the
\* processed descriptor p, and their identities differ.
ChildAndParent(c, p) ==
    /\ c \in Processed /\ p \in Processed
    /\ GavOf(c) # GavOf(p)
    /\ ParentGavOf(c) = GavOf(p)

\* The input is the two descriptors c and p, and p has no parent.
TwoDescriptorInput(c, p) ==
    /\ Len(pomXmls) = 2 /\ Len(resolved) = 2
    /\ ChildAndParent(c, p)
    /\ ParentGavOf(p) = NoGav

\* The forest is p as only root with c as its sole child.
PairTree(c, p) ==
    \E pn, cn \in 1..Len(nodes) :
        /\ prototypeTree = <<pn>>
        /\ nodes[pn].pomGav = GavOf(p) /\ nodes[pn].pomPath = DirOf(p)
        /\ nodes[pn].children = <<cn>>
        /\ nodes[cn].pomGav = GavOf(c) /\ nodes[cn].pomPath = DirOf(c)
        /\ nodes[cn].children = <<>>

StepInserted == pc = "poms" /\ last.pom # 0 /\ last.gav[1] # NoGav

\* The placeholders of the forest before the last step that carry the
\* identity the step resolved.
MatchedPlaceholders ==
    {n \in InForest(last.nodesBefore, last.treeBefore) :
        /\ last.nodesBefore[n].pomGav = last.gav[1]
        /\ last.nodesBefore[n].pomPath = EmptyPath}

\* C4: a descriptor whose moduleGav is the identity of an existing
\* placeholder reuses that node: the node keeps exactly the children it had
\* (same nodes, same order), and gets the directory and the parent identity
\* of the descriptor; no other node is made for the descriptor.
C4_PlaceholderReused ==
    StepInserted =>
        \A n \in MatchedPlaceholders :
            /\ n \in InForest(nodes, prototypeTree)
            /\ nodes[n].pomGav = last.gav[1]
            /\ nodes[n].children = last.nodesBefore[n].children
            /\ nodes[n].pomPath = Dirname(PomFile(last.pom))
            /\ nodes[n].parentGav = last.gav[2]
            /\ NodesAt(Dirname(PomFile(last.pom))) = {n}

\* C4 witness: a placeholder with a child was matched by a descriptor that
\* has a parent of its own.
C4_Witness ==
    /\ StepInserted
    /\ \E n \in MatchedPlaceholders :
          /\ last.nodesBefore[n].children # <<>>
          /\ nodes[n].parentGav # NoGav

\* C5 (as claimed): the install command is run at most once per process.
C5_InstallAtMostOnce == installRuns <= 1

\* C5 (amended): the install command completes at most once per process:
\* the flag is set exactly when a run has succeeded, no run follows a
\* successful one, and a build only goes on with the reader installed.
C5_InstallSucceedsOnce ==
    /\ installRuns <= installFailed + 1
    /\ mavenGavReaderInstalled <=> (installRuns = installFailed + 1)
    /\ pc \in {"poms", "trees"} => mavenGavReaderInstalled

\* C5 witness: a second build passed the gate without running the command.
C5_Witness ==
    /\ calls = 2 /\ pc = "poms"
    /\ cmds.install = 0 /\ installRuns = 1

\* An output of the reader command that makes getPomDetails fail.
OutputBroken(out) == out.failed \/ \E i \in 1..Len(out.lines) : ~out.lines[i].ok

\* The last step ran the reader command and it failed.
StepFailed == pc = "poms" /\ last.pom # 0 /\ last.invoked /\ OutputBroken(last.out)

\* C6: no failure of an external command leaves createMavenDependenciesTrees:
\* it never ends with an exception, every failed resolution and every failed
\* root is logged, and a scan with descriptors ends before the for-of loop
\* over the roots only after a failed probe.
C6_NoFailureEscapes ==
    /\ outcome # "thrown"
    /\ StepFailed => last.logged
    /\ \A i \in 1..Len(attempted) : attempted[i].failed => attempted[i].logged
    /\ (pc = "idle" /\ calls > 0 /\ Len(pomXmls) > 0 /\ cmds.probeFailed = 0)
           => (outcome = "returned" /\ cmds.tree = Len(prototypeTree))

\* The scan went through the for-of loop and returned mavenTreeNodes.
ReturnedTrees ==
    /\ pc = "idle" /\ outcome = "returned"
    /\ Len(pomXmls) > 0 /\ cmds.probeFailed = 0

Populated(a) == a.children /\ ~a.failed
RootsOf(att) == [i \in 1..Len(att) |-> att[i].root]

\* C7: the roots are attempted once each, in the order of the forest; after
\* a failure the later roots are still attempted; the returned list is the
\* roots that did not fail and got children, in order.
C7_EveryRootAttempted ==
    /\ pc = "trees" =>
          /\ Len(attempted) = rootPos
          /\ RootsOf(attempted) = SubSeq(prototypeTree, 1, rootPos)
    /\ ReturnedTrees =>
          /\ RootsOf(attempted) = prototypeTree
          /\ cmds.tree = Len(prototypeTree)
    /\ (pc = "trees" \/ ReturnedTrees) =>
          mavenTreeNodes = RootsOf(SelectSeq(attempted, Populated))

\* C7 witness: the first root failed, the second one was attempted and is
\* the returned list.
C7_Witness ==
    /\ ReturnedTrees
    /\ Len(attempted) = 2
    /\ attempted[1].failed
    /\ mavenTreeNodes = <<prototypeTree[2]>>

\* C8: getPomDetails never raises; when the reader command fails or a line
\* is malformed it returns ('', ''), the failure is logged, the forest is
\* left as it was, and the forEach goes on over every descriptor.
C8_FailedResolutionSkips ==
    /\ outcome = "thrown" => cmds.gav = 0
    /\ StepFailed =>
          /\ last.gav = <<NoGav, NoGav>>
          /\ last.logged
          /\ nodes = last.nodesBefore
          /\ prototypeTree = last.treeBefore
    /\ pc = "poms" => Len(resolved) = done
    /\ ForestReturned => (done = Len(pomXmls) /\ Len(resolved) = Len(pomXmls))

\* C8 witness: the output had the line of the requested path and then a
\* malformed line, and a further descriptor is still to be processed.
C8_Witness ==
    /\ StepFailed
    /\ done < Len(pomXmls)
    /\ \E i, j \in 1..Len(last.out.lines) :
          /\ i < j
          /\ last.out.lines[i].ok
          /\ last.out.lines[i].pomPath = PomFile(last.pom)
          /\ last.out.lines[i].gav # NoGav
          /\ ~last.out.lines[j].ok

\* The last step was a call of getPomDetails for a cached path / for a path
\* that was not cached.
StepHit == pc = "poms" /\ last.pom # 0 /\ PomFile(last.pom) \in DOMAIN last.cacheBefore
StepMiss == pc = "poms" /\ last.pom # 0 /\ PomFile(last.pom) \notin DOMAIN last.cacheBefore

\* A hit returns the cached pair without running the command.
HitReturnsCached ==
    StepHit =>
        /\ last.gav = last.cacheBefore[PomFile(last.pom)]
        /\ ~last.invoked
        /\ pomIdCache = last.cacheBefore

\* The lines of the last output up to the first malformed one.
GoodPrefix == {i \in 1..Len(last.out.lines) : \A j \in 1..i : last.out.lines[j].ok}

Stored(l) ==
    /\ l.pomPath \in DOMAIN pomIdCache
    /\ pomIdCache[l.pomPath] = <<l.gav, l.parentGav>>

\* C9 (as claimed): a hit returns the cached pair without invocation; a
\* miss runs the command once and stores an entry for every line of the
\* output under the pomPath of the line.
C9_OneEntryPerLine ==
    /\ HitReturnsCached
    /\ StepMiss =>
          /\ last.invoked
          /\ \A i \in 1..Len(last.out.lines) :
                last.out.lines[i].ok => Stored(last.out.lines[i])

\* C9 (amended): a hit returns the cached pair without invocation; a miss
\* runs the command once and stores an entry for every line of the output
\* that comes before the first malformed line, and nothing else; the
\* command runs at most once per processed descriptor and never for a
\* path some earlier output stored.
C9_EntriesUpToFirstBadLine ==
    /\ HitReturnsCached
    /\ StepMiss =>
          /\ last.invoked
          /\ \A i \in GoodPrefix : Stored(last.out.lines[i])
          /\ DOMAIN pomIdCache =
                DOMAIN last.cacheBefore \cup {last.out.lines[i].pomPath : i \in GoodPrefix}
          /\ \A k \in DOMAIN last.cacheBefore :
                (\A i \in GoodPrefix : last.out.lines[i].pomPath # k)
                    => pomIdCache[k] = last.cacheBefore[k]
    /\ pc = "poms" => cmds.gav <= done

\* C9 witness: the second descriptor was served from the entry that the
\* output of the invocation for the first one had stored.
C9_Witness ==
    /\ StepHit
    /\ done = 2
    /\ cmds.gav = 1
    /\ ~last.invoked
    /\ last.gav[1] # NoGav

\* C10: after a failed probe one error message is shown and the scan
\* returns [] without install, resolution or dependency-tree command; with
\* no descriptor the scan returns [] without the probe.
C10_NoMavenNoWork ==
    /\ cmds.shown = cmds.probeFailed
    /\ cmds.probeFailed > 0 =>
          /\ cmds.shown = 1 /\ cmds.probe = 1
          /\ pc = "idle" /\ outcome = "returned"
          /\ mavenTreeNodes = <<>>
          /\ cmds.install = 0 /\ cmds.gav = 0 /\ cmds.tree = 0
    /\ (calls > 0 /\ Len(pomXmls) = 0) =>
          /\ pc = "idle" /\ outcome = "returned"
          /\ mavenTreeNodes = <<>>
          /\ cmds = NoCmds

\* C10 witness: the probe failed in a scan of a workspace with descriptors,
\* in a process whose reader is installed.
C10_Witness ==
    /\ cmds.probeFailed = 1
    /\ outcome = "returned"
    /\ Len(pomXmls) > 0
    /\ mavenGavReaderInstalled

\* -------------------------------------------- getDependencyPos on its own
MaxBlocks == 1      \* <dependency> blocks of a pom.xml text
MaxChain == 2       \* nodes from the given node up to the last one the lookup can reach

DocumentsUpTo(n) == UNION {[1..k -> DependencyBlocks] : k \in 0..n}

\* The nodes of a dependencies tree: a component id group:artifact:version
\* in lower case, MavenTreeNode or not.
TreeNodes == [groupId : Names, artifactId : Names, version : {"1"}, moduleRoot : BOOLEAN]

\* The chains of a node and its ancestors up to the first MavenTreeNode or
\* to the node without parent; the lookup reads no node above these.
Chains ==
    {c \in UNION {[1..k -> TreeNodes] : k \in 0..MaxChain} :
        \A i \in 1..(Len(c) - 1) : ~c[i].moduleRoot}

\* A call getDependencyPos(document, node).  pom is the text of the
\* descriptor of the module whose tree the node and its parent lie in: the
\* document of the call, or another text.
PosInit ==
    /\ NoScan
    /\ locate = NoLocate
    /\ filter = NoFilter
    /\ pomArray = <<>>
    /\ \E document \in DocumentsUpTo(MaxBlocks), chain \in Chains :
          \E pom \in {document} \cup DocumentsUpTo(1) :
              depPos = [NoDepPos EXCEPT !.document = document, !.pom = pom,
                                        !.chain = chain]

\* The node of the running invocation; none when it is undefined.
Invoked == depPos.node <= Len(depPos.chain)

\* Lines 42-44: the node is undefined.
PosUndefined ==
    /\ ~depPos.returned
    /\ ~Invoked
    /\ depPos' = [depPos EXCEPT !.calls = @ + 1, !.result = <<>>, !.returned = TRUE]
    /\ UNCHANGED <<scanVars, locate, filter, pomArray>>

\* Lines 45-69: a block matches, its positions are returned.
PosFound ==
    /\ ~depPos.returned
    /\ Invoked
    /\ DependencyMatch(depPos.document, depPos.chain[depPos.node]) # {}
    /\ depPos' = [depPos EXCEPT !.calls = @ + 1,
                                !.result = Highlight(depPos.document,
                                                     depPos.chain[depPos.node]),
                                !.returned = TRUE]
    /\ UNCHANGED <<scanVars, locate, filter, pomArray>>

\* Lines 70-72: no block matches and the node is not a MavenTreeNode: the
\* invocation for the parent, with the same document, gives the result.
PosParent ==
    /\ ~depPos.returned
    /\ Invoked
    /\ DependencyMatch(depPos.document, depPos.chain[depPos.node]) = {}
    /\ GoesToParent(depPos.chain[depPos.node])
    /\ depPos' = [depPos EXCEPT !.calls = @ + 1, !.node = @ + 1]
    /\ UNCHANGED <<scanVars, locate, filter, pomArray>>

\* Line 73: no block matches and the node is a MavenTreeNode.
PosEmpty ==
    /\ ~depPos.returned
    /\ Invoked
    /\ DependencyMatch(depPos.document, depPos.chain[depPos.node]) = {}
    /\ ~GoesToParent(depPos.chain[depPos.node])
    /\ depPos' = [depPos EXCEPT !.calls = @ + 1, !.result = <<>>, !.returned = TRUE]
    /\ UNCHANGED <<scanVars, locate, filter, pomArray>>

PosNext ==
    \/ PosUndefined
    \/ PosFound
    \/ PosParent
    \/ PosEmpty

PosSpec == PosInit /\ [][PosNext]_vars

\* The files some folder's search discovered.
Discovered(found) == UNION {Elements(found[i]) : i \in 1..Len(found)}

\* The same search results with the files of every folder returned in the
\* order of their numbers: another order of the underlying search.
OtherSearchOrder(found) ==
    [i \in 1..Len(found) |->
        SortBy({jk \in SnapshotFiles \X SnapshotFiles : jk[1] < jk[2]}, found[i])]

\* C11: locatePomXmls returns every discovered path exactly once, sorted
\* ascending by full path; the returned sequence is the same for every order
\* in which the file searches return their results; it is empty when nothing
\* is found.
C11_LocateSortedOnce ==
    locate.returned =>
        /\ Elements(locate.result) = Discovered(locate.found)
        /\ \A i, j \in 1..Len(locate.result) :
              i # j => locate.result[i] # locate.result[j]
        /\ \A i, j \in 1..Len(locate.result) :
              i < j => ~LocaleLess(PomFile(locate.result[j]), PomFile(locate.result[i]))
        /\ locate.result = locatePomXmls(OtherSearchOrder(locate.found))
        /\ Discovered(locate.found) = {} => locate.result = <<>>

\* C12: filtering the result of filterParentDependencies again with the
\* same present parentDeps returns the same sequence, and a call changes
\* neither of its arguments.
C12_FilterIdempotent ==
    /\ filter.calls >= 1 =>
          /\ filter.childDependencies = filter.given.childDependencies
          /\ filter.parentDeps = filter.given.parentDeps
    /\ filter.calls = 2 =>
          /\ filter.second = filter.first
          /\ filter.passed = filter.first.result.lines

\* C12 witness: the first call excluded a line and retained another one,
\* and its result was filtered again.
C12_Witness ==
    /\ filter.calls = 2
    /\ filter.first.result.lines # <<>>
    /\ Len(filter.first.result.lines) < Len(filter.given.childDependencies)

RECURSIVE Stripped(_)
\* The text of a line after its leading non-alphanumeric characters.
Stripped(line) ==
    IF line = <<>> \/ Head(line) \in WordChars THEN line ELSE Stripped(Tail(line))

\* s is a substring of text.
Occurs(s, text) ==
    \E i \in 0..(Len(text) - Len(s)) : \A k \in 1..Len(s) : s[k] = text[i + k]

\* C13: the result is absent exactly when parentDeps is absent; otherwise it
\* is the child lines, in order, whose text after the leading
\* non-alphanumeric characters does not occur in the joined parent lines.
C13_FilterKeepsChildOnly ==
    filter.calls >= 1 =>
        /\ ~filter.first.threw
        /\ filter.first.result.present <=> filter.given.parentDeps.present
        /\ filter.given.parentDeps.present =>
              filter.first.result.lines =
                  SelectSeq(filter.given.childDependencies,
                      LAMBDA line : ~Occurs(Stripped(line),
                                            Join(filter.given.parentDeps.lines)))

\* The nodes of the forest before the last step that carry the identity
\* the step resolved.
ExistingNodes ==
    {n \in InForest(last.nodesBefore, last.treeBefore) :
        last.nodesBefore[n].pomGav = last.gav[1]}

\* The node that has the directory of the descriptor of the last step.
CurrentNodes == NodesAt(Dirname(PomFile(last.pom)))

\* C14: when a descriptor with a non-empty moduleGav is processed and a node
\* of the forest, root or nested at any depth, carries that identity, that
\* node is the one reused for the descriptor and it occurs once in the
\* forest; a node is created for the descriptor only when no node of the
\* forest carries the identity.
C14_WholeForestSearched ==
    StepInserted =>
        /\ ExistingNodes # {} =>
              /\ CurrentNodes \subseteq ExistingNodes
              /\ Len(nodes) <= Len(last.nodesBefore) + 1
        /\ \A n \in CurrentNodes :
              /\ n > Len(last.nodesBefore) => ExistingNodes = {}
              /\ Len(SelectSeq(Occurrences(nodes, prototypeTree), LAMBDA m : m = n)) = 1

\* C15: after every processed descriptor the structure is a valid forest:
\* no two nodes carry the same identity, no node occurs twice, no node is
\* its own ancestor; also when a descriptor is its own parent or the parent
\* identities form a cycle.
C15_ValidForestThroughout ==
    (pc = "poms" /\ done > 0) => ValidForest(nodes, prototypeTree)

\* C16: no GAV resolution happens unless an install of the reader has
\* succeeded earlier in the process, and a failing install ends the build
\* before any descriptor is resolved.
C16_NoResolutionBeforeInstall ==
    /\ (cmds.gav > 0 \/ Len(resolved) > 0 \/ done > 0) =>
          /\ mavenGavReaderInstalled
          /\ installRuns > installFailed
    /\ (cmds.install = 1 /\ ~mavenGavReaderInstalled) =>
          /\ pc = "idle" /\ outcome = "thrown"
          /\ cmds.gav = 0 /\ resolved = <<>> /\ nodes = <<>>

\* C16 witness: the install of the first scan failed, the second scan
\* installed the reader and resolved a descriptor.
C16_Witness ==
    /\ calls = 2
    /\ installFailed = 1 /\ installRuns = 2
    /\ cmds.gav = 1
    /\ resolved # <<>> /\ resolved[1][1] # NoGav

\* The path length of a descriptor.
LengthOf(pom) == FsPathLength(PomFile(pom))

\* C17: the descriptors are resolved and inserted one after another in
\* non-decreasing order of path length, whatever the order of the given
\* array: the array processed is an arrangement of the given one, every
\* step takes its next element, and no descriptor still to be processed has
\* a strictly shorter path than one that was processed.
C17_ShortestPathFirst ==
    pc = "poms" =>
        /\ Len(pomXmls) = Len(pomArray)
        /\ Elements(pomXmls) = Elements(pomArray)
        /\ Len(resolved) = done
        /\ last.pom # 0 => last.pom = pomXmls[done]
        /\ \A i \in 1..done : \A j \in (done + 1)..Len(pomXmls) :
              LengthOf(pomXmls[i]) <= LengthOf(pomXmls[j])
        /\ \A i, j \in 1..done : i < j => LengthOf(pomXmls[i]) <= LengthOf(pomXmls[j])

\* C17 witness: the array was given with the longer path first, and the
\* descriptor of the shorter path was processed while the longer one waits.
C17_Witness ==
    /\ pc = "poms"
    /\ Len(pomArray) >= 2
    /\ LengthOf(pomArray[1]) > LengthOf(pomArray[2])
    /\ done = 1
    /\ last.pom = pomArray[2]

\* C19: every descriptor whose moduleGav resolved is represented in the
\* forest, while it is built and when it is returned, by a node of that
\* identity that has a descriptor directory and is reachable from a root.
C19_NoModuleLost ==
    pc \in {"poms", "trees"} =>
        \A i \in Processed :
            \E n \in InForest(nodes, prototypeTree) :
                nodes[n].pomGav = GavOf(i) /\ ~Placeholder(nodes, n)

\* The PomTree objects that are no longer in the forest.
Removed == (1..Len(nodes)) \ InForest(nodes, prototypeTree)

\* C19 witness: the closing loop removed a placeholder and its child, whose
\* parent has no descriptor, is a root of the returned forest.
C19_Witness ==
    /\ pc = "trees"
    /\ \E r \in Removed : \E n \in Roots(prototypeTree) :
          /\ Placeholder(nodes, r)
          /\ n \in ChildrenOf(r)
          /\ ~Placeholder(nodes, n)

\* C20: at every step a node without descriptor directory is a root of the
\* forest, never a child, and the parent identity of every child is the
\* identity of the node it is a child of.
C20_PlaceholdersOnlyRoots ==
    \A n \in InForest(nodes, prototypeTree) : \A c \in ChildrenOf(n) :
        /\ ~Placeholder(nodes, c)
        /\ nodes[c].parentGav = nodes[n].pomGav

\* C20 witness: the forest has a placeholder root, and a node that has a
\* descriptor and a child.
C20_Witness ==
    /\ pc = "poms"
    /\ \E r \in Roots(prototypeTree) : Placeholder(nodes, r) /\ ChildrenOf(r) # {}
    /\ \E n \in InForest(nodes, prototypeTree) :
          ~Placeholder(nodes, n) /\ ChildrenOf(n) # {}

\* No block of the text matches the node.
NoBlock(document, node) == DependencyMatch(document, node) = {}

\* The chain of the ancestors of the i-th node of the chain.
Ancestors(chain, i) == SubSeq(chain, i + 1, Len(chain))

\* The lookup is over after at most one invocation per node of the chain
\* and one for the undefined parent of the last one, and is never stuck
\* before it has returned.
LookupTerminates ==
    /\ depPos.calls <= Len(depPos.chain) + 1
    /\ depPos.node <= Len(depPos.chain) + 1
    /\ ~depPos.returned => ENABLED PosNext

\* C18 (as claimed): when no block matches the node and the node is not a
\* module root, the result is the result of the lookup for the parent in the
\* text of the descriptor of the parent; when the node is a module root or
\* absent and nothing matches, the result is empty; the lookup terminates.
C18_ParentInParentDescriptor ==
    /\ LookupTerminates
    /\ depPos.returned =>
          /\ (depPos.chain # <<>> /\ NoBlock(depPos.document, depPos.chain[1])
                 /\ ~depPos.chain[1].moduleRoot)
                => depPos.result = getDependencyPos(depPos.pom, Ancestors(depPos.chain, 1))
          /\ (depPos.chain = <<>>
                 \/ (NoBlock(depPos.document, depPos.chain[1]) /\ depPos.chain[1].moduleRoot))
                => depPos.result = <<>>

\* C18 (amended): when no block of the document matches the node and the
\* node is not a module root, the result is the result of the lookup for
\* the parent in the same document, at every level of the chain; when the
\* node is a module root or absent and nothing matches, the result is
\* empty; the lookup terminates.
C18_ParentInSameDocument ==
    /\ LookupTerminates
    /\ depPos.returned =>
          /\ \A i \in 1..Len(depPos.chain) :
                (\A j \in 1..i : NoBlock(depPos.document, depPos.chain[j])
                                     /\ ~depPos.chain[j].moduleRoot)
                    => depPos.result =
                           getDependencyPos(depPos.document, Ancestors(depPos.chain, i))
          /\ (depPos.chain = <<>>
                 \/ (NoBlock(depPos.document, depPos.chain[1]) /\ depPos.chain[1].moduleRoot))
                => depPos.result = <<>>

\* C18 witness: no block matched the node, which is not a module root, and
\* the positions returned are those of the block that matches its parent;
\* the document is the descriptor of their module.
C18_Witness ==
    /\ depPos.returned
    /\ depPos.pom = depPos.document
    /\ Len(depPos.chain) = 2
    /\ NoBlock(depPos.document, depPos.chain[1])
    /\ ~depPos.chain[1].moduleRoot
    /\ depPos.calls = 2
    /\ Len(depPos.result) = 6

====
